---- MODULE Spec2Model ----
(***************************************************************************)
(* Model of the configuration-driven resource lifecycle of the             *)
(* sign-language-translator application:                                   *)
(*   - CameraIngestion (src/src/input/ingestion.py): a device handle, the  *)
(*     camera_frames generators over it, stop() and __exit__;              *)
(*   - ConfigRegistry (src/src/core/config/registry.py): schemas, cached   *)
(*     instances, paths, and the YAML files they are loaded from.          *)
(***************************************************************************)
EXTENDS Integers, Sequences, FiniteSets, TLC

(***************************************************************************)
(* Bounds of the model.                                                    *)
(***************************************************************************)
\* number of camera_frames() generators one CameraIngestion hands out
MaxGens == 1
\* largest max_read_retries a CameraIngestion is constructed with
MaxRetries == 2
\* frames the device delivers to one generator: later reads fail
MaxYields == 2
\* calls of stop() and of __exit__, taken together, on one CameraIngestion
MaxStops == 1
\* horizon of the clock, in ticks
MaxTime == 1
\* clock ticks per second: fps_limit f > 0 gives an interval of TicksPerSecond/f
TicksPerSecond == 2

None == "None"

Gens == 1..MaxGens

\* the frame-rate ceilings the configuration is drawn from: 0 (no throttling)
\* and the rates whose interval is a whole number of ticks
FpsLimits == {0} \cup {f \in 1..TicksPerSecond : TicksPerSecond % f = 0}

\* times the environment rewrites a configuration file in one exploration
MaxFileChanges == 1
\* calls of the registry's operations in one exploration
MaxCalls == 2

VARIABLES
  \* ---- CameraIngestion ----
  ctor,               \* what CameraIngestion(...) did: the device asked for, the outcome
  max_read_retries,   \* self.max_read_retries
  fps_limit,          \* self.config.fps_limit
  capOpen,            \* what self.cap.isOpened() reports
  relCount,           \* number of self.cap.release() calls so far
  usedAfterRelease,   \* a handle operation other than release ran after a release
  nGen,               \* number of camera_frames() calls so far
  gen,                \* the generators: locals, position, and what each has done
  running,            \* the generator whose body is executing, 0 when none
  stopCalls,          \* number of stop() calls
  exitCalls,          \* number of __exit__ calls
  \* ---- ConfigRegistry ----
  _instance,          \* cls._instance: None, or the registry object
  _config_schemas,    \* cls._config_schemas: name -> schema class
  _config_instances,  \* cls._config_instances: name -> cached instance
  _paths,             \* cls._paths: path name -> path
  fs,                 \* the files: path -> what the file holds
  dirs,               \* the directories that exist
  nextId,             \* identity of the next object constructed
  fileChanges,        \* rewrites of a file by the environment so far
  calls,              \* calls of the registry's operations so far
  loads,              \* name -> what the last load_config(name) call returned
  last                \* the last call: arguments, result, exception, log, file read

camVars == <<ctor, max_read_retries, fps_limit, capOpen, relCount, usedAfterRelease,
             nGen, gen, running, stopCalls, exitCalls>>

regVars == <<_instance, _config_schemas, _config_instances, _paths, fs, dirs,
             nextId, fileChanges, calls, loads, last>>

vars == <<camVars, regVars>>

(***************************************************************************)
(* CameraIngestion                                                         *)
(***************************************************************************)

\* A generator object.  pc is its position in camera_frames:
\*   "none"      not created yet
\*   "unstarted" created by camera_frames(), body not entered
\*   "loop"      at the while test (line 75)
\*   "throttle"  at the throttling block (line 78)
\*   "sleep"     inside time.sleep (line 80)
\*   "stamp"     at line 81, time.sleep not having been called
\*   "read"      at self.cap.read() (line 83)
\*   "yield"     suspended at yield frame (line 94)
\*   "finally"   in the finally block, before release (line 96)
\*   "done"      terminated
\* why is how it left the loop: "closed" (the while test failed), "error"
\* (FrameReadError), "exit" (closed by the consumer at the yield), "unstarted"
\* (closed before its first pull), "AttributeError" (raised by its first pull,
\* before the loop).
\* read_retries and last_frame_time are the locals of the body.  The other fields
\* record what the generator has done: releases (calls of release), fails (failed
\* reads) and warnings (retry warnings) since it was last resumed, yields (frames
\* yielded) and slept (the duration asked of time.sleep in the iteration under
\* way, 0 when it was not called).
\* Of that iteration it also keeps elapsed, the current_time - last_frame_time
\* of line 79, and yield_time is last_frame_time as it stood when the last frame
\* was yielded (-1 before any frame, and again once a retry has passed its own
\* test of line 79: it is kept for the first retry after a yield).  The frames its successful reads return
\* are numbered in read order: reads is the number of the frame its last
\* successful read returned (0 before any), yielded the number of the frame it
\* last yielded (0 before any).  slept and elapsed describe the throttling
\* of the iteration under way and are cleared at its line 81.  A terminated generator has no
\* locals: the fields that hold times are cleared when it terminates.
NoGen ==
  [pc |-> "none", why |-> None, read_retries |-> 0, last_frame_time |-> 0,
   releases |-> 0, fails |-> 0, warnings |-> 0, yields |-> 0, slept |-> 0,
   elapsed |-> 0, yield_time |-> -1, reads |-> 0, yielded |-> 0]

\* the locals of a generator that has terminated
Cleared(r) ==
  [r EXCEPT !.last_frame_time = 0, !.slept = 0, !.elapsed = 0, !.yield_time = -1]

\* line 72: min_frame_interval = 1.0 / fps_limit if fps_limit > 0 else 0
min_frame_interval ==
  IF fps_limit > 0 THEN TicksPerSecond \div fps_limit ELSE 0

\* the retry test one short: the last retry is not granted
CanRetryOneShort(retries) == retries + 1 < max_read_retries

\* the retry test one over: one retry more than max_read_retries is granted
CanRetryOneMore(retries) == retries <= max_read_retries

\* line 85: the test that decides between a retry and FrameReadError
CanRetry(retries) == retries < max_read_retries

\* an operation on the handle other than release: it is after a release when
\* release has been called before
Touch == usedAfterRelease' = (usedAfterRelease \/ relCount > 0)

\* the devices a configuration names
CameraIds == {0, 1}

\* None given as the configuration, as get_config returns on a soft failure:
\* it has neither a camera_id nor a fps_limit attribute
NoneConfig == [is_none |-> TRUE, has_camera_id |-> FALSE, camera_id |-> 0, fps_limit |-> 0]

\* a configuration: None, or an object, with whether it has a camera_id
\* attribute, and its values
Configs ==
  [is_none : {FALSE}, has_camera_id : BOOLEAN, camera_id : CameraIds,
   fps_limit : FpsLimits] \cup {NoneConfig}

\* line 47: camera_id = getattr(config, "camera_id", 0)
CameraIdOf(config) == IF config.has_camera_id THEN config.camera_id ELSE 0

\* the camera_id attribute of a configuration, -1 when it has none
ConfigCameraId(config) == IF config.has_camera_id THEN config.camera_id ELSE -1

\* What a construction did: state is "none" before it, "built" when __init__
\* returned, "failed" when it raised; config_none is whether self.config is
\* None, config_camera_id is the camera_id of the
\* configuration it was given, camera_id the device VideoCapture was asked for,
\* exc the exception and exc_camera_id the camera_id it carries (-1 without
\* one), gets and reads the property queries and reads on the handle.
NotConstructed ==
  [state |-> "none", config_none |-> FALSE, config_camera_id |-> -1,
   camera_id |-> -1, exc |-> None,
   exc_camera_id |-> -1, gets |-> 0, reads |-> 0]
Built(config) ==
  [state |-> "built", config_none |-> config.is_none,
   config_camera_id |-> ConfigCameraId(config),
   camera_id |-> CameraIdOf(config), exc |-> None, exc_camera_id |-> -1,
   gets |-> 3, reads |-> 0]
OpenFailed(config) ==
  [state |-> "failed", config_none |-> config.is_none,
   config_camera_id |-> ConfigCameraId(config),
   camera_id |-> CameraIdOf(config), exc |-> "CameraOpenError",
   exc_camera_id |-> CameraIdOf(config), gets |-> 0, reads |-> 0]

\* The state after a successful construction on device 0.
CamInit ==
  /\ ctor = Built([is_none |-> FALSE, has_camera_id |-> TRUE, camera_id |-> 0,
                   fps_limit |-> 0])
  /\ max_read_retries \in 0..MaxRetries
  /\ fps_limit \in FpsLimits
  /\ capOpen = TRUE
  /\ relCount = 0
  /\ usedAfterRelease = FALSE
  /\ nGen = 0
  /\ gen = [g \in Gens |-> NoGen]
  /\ running = 0
  /\ stopCalls = 0
  /\ exitCalls = 0

\* camera_frames(): calling a generator function runs none of its body
camera_frames ==
  /\ ctor.state = "built"
  /\ running = 0
  /\ nGen < MaxGens
  /\ nGen' = nGen + 1
  /\ gen' = [gen EXCEPT ![nGen + 1].pc = "unstarted"]
  /\ UNCHANGED <<regVars, ctor, max_read_retries, fps_limit, capOpen, relCount, usedAfterRelease,
                 running, stopCalls, exitCalls>>

\* next(g): the consumer pulls.  The first pull runs lines 70-72 and enters the
\* try block; a later pull resumes after the yield.  Both arrive at the while test.
\* Line 72 reads self.config.fps_limit: when self.config is None it raises
\* AttributeError, before the try block is entered, and the generator is
\* finished without its finally block having run.
Pull(g) ==
  /\ running = 0
  /\ gen[g].pc \in {"unstarted", "yield"}
  /\ IF gen[g].pc = "unstarted" /\ ctor.config_none
     THEN /\ gen' = [gen EXCEPT ![g].pc = "done", ![g].why = "AttributeError"]
          /\ running' = 0
     ELSE /\ gen' = [gen EXCEPT ![g] =
               IF gen[g].pc = "unstarted"
               THEN [@ EXCEPT !.pc = "loop", !.read_retries = 0, !.last_frame_time = 0]
               ELSE [@ EXCEPT !.pc = "loop", !.fails = 0, !.warnings = 0]]
          /\ running' = g
  /\ UNCHANGED <<regVars, ctor, max_read_retries, fps_limit, capOpen, relCount, usedAfterRelease,
                 nGen, stopCalls, exitCalls>>

\* a loop test that takes a handle closed in the middle of a retry run for a
\* failed read
LoopTestRaisesInRetry(g) ==
  /\ running = g
  /\ gen[g].pc = "loop"
  /\ Touch
  /\ gen' = [gen EXCEPT ![g] =
       IF capOpen
       THEN [@ EXCEPT !.pc = "throttle"]
       ELSE IF gen[g].read_retries > 0
       THEN [@ EXCEPT !.pc = "finally", !.why = "error"]
       ELSE [@ EXCEPT !.pc = "finally", !.why = "closed"]]
  /\ UNCHANGED <<regVars, ctor, max_read_retries, fps_limit, capOpen, relCount, nGen, running,
                 stopCalls, exitCalls>>

\* line 75: while self.cap.isOpened()
LoopTest(g) ==
  /\ running = g
  /\ gen[g].pc = "loop"
  /\ Touch
  /\ gen' = [gen EXCEPT ![g] =
       IF capOpen
       THEN [@ EXCEPT !.pc = "throttle"]
       ELSE [@ EXCEPT !.pc = "finally", !.why = "closed"]]
  /\ UNCHANGED <<regVars, ctor, max_read_retries, fps_limit, capOpen, relCount, nGen, running,
                 stopCalls, exitCalls>>

\* a throttle that reads the clock and never sleeps
ThrottleNeverSleeps(g) ==
  /\ running = g
  /\ gen[g].pc = "throttle"
  /\ \E current_time \in 0..MaxTime :
       gen' = [gen EXCEPT ![g].pc = "stamp",
                          ![g].slept = 0,
                          ![g].elapsed = current_time - gen[g].last_frame_time]
  /\ UNCHANGED <<regVars, ctor, max_read_retries, fps_limit, capOpen, relCount,
                 usedAfterRelease, nGen, running, stopCalls, exitCalls>>

\* lines 78-80: read the clock and, when less than the interval has elapsed
\* since last_frame_time, call time.sleep for the rest of it.  time.time() is
\* the wall clock: it may be set back or stand still, so a reading is any time
\* up to the horizon, whatever the readings before it.
Throttle(g) ==
  /\ running = g
  /\ gen[g].pc = "throttle"
  /\ \E current_time \in 0..MaxTime :
       LET elapsed == current_time - gen[g].last_frame_time
       IN gen' = [gen EXCEPT ![g] =
            IF elapsed < min_frame_interval
            THEN [@ EXCEPT !.pc = "sleep", !.elapsed = elapsed,
                           !.slept = min_frame_interval - elapsed]
            ELSE [@ EXCEPT !.pc = "stamp", !.elapsed = elapsed, !.slept = 0]]
  /\ UNCHANGED <<regVars, ctor, max_read_retries, fps_limit, capOpen, relCount, usedAfterRelease,
                 nGen, running, stopCalls, exitCalls>>

\* line 81: last_frame_time = time.time(), once time.sleep has returned or
\* when it was not called; the reading is again any time up to the horizon
Stamp(g) ==
  /\ running = g
  /\ gen[g].pc \in {"sleep", "stamp"}
  /\ \E t \in 0..MaxTime :
       gen' = [gen EXCEPT ![g].pc = "read", ![g].last_frame_time = t,
                          ![g].slept = 0, ![g].elapsed = 0,
                          ![g].yield_time = IF gen[g].read_retries > 0 THEN -1 ELSE @]
  /\ UNCHANGED <<regVars, ctor, max_read_retries, fps_limit, capOpen, relCount, usedAfterRelease,
                 nGen, running, stopCalls, exitCalls>>

\* a failed read that logs the warning on every failure, the fatal one included
ReadFailAlwaysWarns(g) ==
  /\ running = g
  /\ gen[g].pc = "read"
  /\ Touch
  /\ gen' = [gen EXCEPT ![g] =
       IF CanRetry(gen[g].read_retries)
       THEN [@ EXCEPT !.pc = "loop", !.read_retries = @ + 1, !.warnings = @ + 1,
                      !.fails = @ + 1, !.slept = 0, !.elapsed = 0]
       ELSE [@ EXCEPT !.pc = "finally", !.why = "error", !.warnings = @ + 1,
                      !.fails = @ + 1, !.slept = 0, !.elapsed = 0]]
  /\ UNCHANGED <<regVars, ctor, max_read_retries, fps_limit, capOpen, relCount, nGen, running,
                 stopCalls, exitCalls>>

\* lines 83-94, a failed read: retry with a warning, or FrameReadError
ReadFail(g) ==
  /\ running = g
  /\ gen[g].pc = "read"
  /\ Touch
  /\ gen' = [gen EXCEPT ![g] =
       IF CanRetry(gen[g].read_retries)
       THEN [@ EXCEPT !.pc = "loop", !.read_retries = @ + 1, !.warnings = @ + 1,
                      !.fails = @ + 1, !.slept = 0, !.elapsed = 0]
       ELSE [@ EXCEPT !.pc = "finally", !.why = "error", !.fails = @ + 1,
                      !.slept = 0, !.elapsed = 0]]
  /\ UNCHANGED <<regVars, ctor, max_read_retries, fps_limit, capOpen, relCount, nGen, running,
                 stopCalls, exitCalls>>

\* a successful read that yields the frame and leaves the counter as it is
ReadOkKeepsCounter(g) ==
  /\ running = g
  /\ gen[g].pc = "read"
  /\ capOpen
  /\ gen[g].yields < MaxYields
  /\ Touch
  /\ gen' = [gen EXCEPT ![g] =
       [@ EXCEPT !.pc = "yield", !.yields = @ + 1,
                 !.reads = @ + 1, !.yielded = gen[g].reads + 1,
                 !.yield_time = gen[g].last_frame_time, !.slept = 0, !.elapsed = 0]]
  /\ running' = 0
  /\ UNCHANGED <<regVars, ctor, max_read_retries, fps_limit, capOpen, relCount, nGen,
                 stopCalls, exitCalls>>

\* a successful read that releases the handle as it hands the frame over
ReadOkReleases(g) ==
  /\ running = g
  /\ gen[g].pc = "read"
  /\ capOpen
  /\ gen[g].yields < MaxYields
  /\ Touch
  /\ gen' = [gen EXCEPT ![g] =
       [@ EXCEPT !.pc = "yield", !.read_retries = 0, !.yields = @ + 1,
                 !.reads = @ + 1, !.yielded = gen[g].reads + 1,
                 !.yield_time = gen[g].last_frame_time, !.slept = 0, !.elapsed = 0]]
  /\ running' = 0
  /\ relCount' = relCount + 1
  /\ capOpen' = FALSE
  /\ UNCHANGED <<regVars, ctor, max_read_retries, fps_limit, nGen,
                 stopCalls, exitCalls>>

\* a successful read whose frame is not yielded: the loop goes on to the next
ReadOkSkipsFrame(g) ==
  /\ running = g
  /\ gen[g].pc = "read"
  /\ capOpen
  /\ gen[g].reads < MaxYields
  /\ Touch
  /\ gen' = [gen EXCEPT ![g] =
       [@ EXCEPT !.pc = "loop", !.read_retries = 0, !.reads = @ + 1,
                 !.slept = 0, !.elapsed = 0]]
  /\ UNCHANGED <<regVars, ctor, max_read_retries, fps_limit, capOpen, relCount, nGen,
                 running, stopCalls, exitCalls>>

\* lines 83-94, a successful read: reset the counter and yield the frame.  A
\* handle that reports closed returns no frame.
ReadOk(g) ==
  /\ running = g
  /\ gen[g].pc = "read"
  /\ capOpen
  /\ gen[g].yields < MaxYields
  /\ Touch
  /\ gen' = [gen EXCEPT ![g] =
       [@ EXCEPT !.pc = "yield", !.read_retries = 0, !.yields = @ + 1,
                 !.reads = @ + 1, !.yielded = gen[g].reads + 1,
                 !.yield_time = gen[g].last_frame_time, !.slept = 0, !.elapsed = 0]]
  /\ running' = 0
  /\ UNCHANGED <<regVars, ctor, max_read_retries, fps_limit, capOpen, relCount, nGen,
                 stopCalls, exitCalls>>

\* the generator terminating with no finally block: release is never called
FinallyWithoutRelease(g) ==
  /\ running = g
  /\ gen[g].pc = "finally"
  /\ gen' = [gen EXCEPT ![g] = Cleared([@ EXCEPT !.pc = "done"])]
  /\ running' = 0
  /\ UNCHANGED <<regVars, ctor, max_read_retries, fps_limit, capOpen, relCount, usedAfterRelease,
                 nGen, stopCalls, exitCalls>>

\* line 96: finally: self.cap.release(); the generator then terminates
Finally(g) ==
  /\ running = g
  /\ gen[g].pc = "finally"
  /\ relCount' = relCount + 1
  /\ capOpen' = FALSE
  /\ gen' = [gen EXCEPT ![g] = Cleared([@ EXCEPT !.pc = "done", !.releases = @ + 1])]
  /\ running' = 0
  /\ UNCHANGED <<regVars, ctor, max_read_retries, fps_limit, usedAfterRelease, nGen,
                 stopCalls, exitCalls>>

\* g.close(), or the generator being finalised (as at the end of a for loop
\* left with break): GeneratorExit is raised at the yield and the finally block
\* runs; a generator that was never pulled has not entered the try block and
\* terminates without running any of the body.
Close(g) ==
  /\ running = 0
  /\ gen[g].pc \in {"unstarted", "yield"}
  /\ IF gen[g].pc = "yield"
     THEN /\ gen' = [gen EXCEPT ![g].pc = "finally", ![g].why = "exit"]
          /\ running' = g
     ELSE /\ gen' = [gen EXCEPT ![g].pc = "done", ![g].why = "unstarted"]
          /\ running' = 0
  /\ UNCHANGED <<regVars, ctor, max_read_retries, fps_limit, capOpen, relCount, usedAfterRelease,
                 nGen, stopCalls, exitCalls>>

\* a generator's body is inside time.sleep: its thread is blocked, and
\* another one may run
Sleeping == \E g \in Gens : running = g /\ gen[g].pc = "sleep"

\* stop(): self.cap.release(); cv2.destroyAllWindows()
stop ==
  /\ ctor.state = "built"
  /\ running = 0 \/ Sleeping
  /\ stopCalls + exitCalls < MaxStops
  /\ stopCalls' = stopCalls + 1
  /\ relCount' = relCount + 1
  /\ capOpen' = FALSE
  /\ UNCHANGED <<regVars, ctor, max_read_retries, fps_limit, usedAfterRelease, nGen, gen,
                 running, exitCalls>>

\* __exit__: self.cap.release()
exit ==
  /\ ctor.state = "built"
  /\ running = 0 \/ Sleeping
  /\ stopCalls + exitCalls < MaxStops
  /\ exitCalls' = exitCalls + 1
  /\ relCount' = relCount + 1
  /\ capOpen' = FALSE
  /\ UNCHANGED <<regVars, ctor, max_read_retries, fps_limit, usedAfterRelease, nGen, gen,
                 running, stopCalls>>

\* the device stops reporting itself open without a release (it went away)
DeviceCloses ==
  /\ capOpen
  /\ capOpen' = FALSE
  /\ UNCHANGED <<regVars, ctor, max_read_retries, fps_limit, relCount, usedAfterRelease, nGen,
                 gen, running, stopCalls, exitCalls>>

\* Before any construction: no object, no handle.
CtorInit ==
  /\ ctor = NotConstructed
  /\ max_read_retries = 0
  /\ fps_limit = 0
  /\ capOpen = FALSE
  /\ relCount = 0
  /\ usedAfterRelease = FALSE
  /\ nGen = 0
  /\ gen = [g \in Gens |-> NoGen]
  /\ running = 0
  /\ stopCalls = 0
  /\ exitCalls = 0

\* a constructor that queries the handle's properties before the isOpened test
InitQueriesFirst(config, retries, opens) ==
  /\ ctor.state = "none"
  /\ max_read_retries' = retries
  /\ fps_limit' = config.fps_limit
  /\ capOpen' = opens
  /\ ctor' = IF opens THEN Built(config)
            ELSE [OpenFailed(config) EXCEPT !.gets = 3]
  /\ UNCHANGED <<regVars, relCount, usedAfterRelease, nGen, gen, running, stopCalls,
                 exitCalls>>

\* CameraIngestion(config, logger, max_read_retries), lines 42-54, on a device
\* that opens or does not: VideoCapture(camera_id), then CameraOpenError(camera_id)
\* when isOpened() is false, else the three property queries.
__init__(config, retries, opens) ==
  /\ ctor.state = "none"
  /\ max_read_retries' = retries
  /\ fps_limit' = config.fps_limit
  /\ capOpen' = opens
  /\ ctor' = IF opens THEN Built(config) ELSE OpenFailed(config)
  /\ UNCHANGED <<regVars, relCount, usedAfterRelease, nGen, gen, running, stopCalls,
                 exitCalls>>

CamNext ==
  \/ camera_frames
  \/ \E g \in Gens : Pull(g)
  \/ \E g \in Gens : LoopTest(g)
  \/ \E g \in Gens : Throttle(g)
  \/ \E g \in Gens : Stamp(g)
  \/ \E g \in Gens : ReadFail(g)
  \/ \E g \in Gens : ReadOk(g)
  \/ \E g \in Gens : Finally(g)
  \/ \E g \in Gens : Close(g)
  \/ stop
  \/ exit
  \/ DeviceCloses

(***************************************************************************)
(* ConfigRegistry: values, schemas and validation                          *)
(***************************************************************************)

\* configuration names, schema classes, and the keys a mapping may hold.  The
\* names and classes of the tests are the ones the registry's operations are
\* explored with; "camera" and "processor" are the application's (main.py).
TestNames == {"test", "pathless"}
Names == TestNames \cup {"camera", "processor"}
Classes == {"TestConfig", "Pathless"}
SchemaClasses == Classes \cup {"CameraConfig", "FrameProcessorConfig"}
Keys == {"value", "number", "bad", "camera_id", "target_size", "fps_limit",
         "interpolation"}

\* Values are written as Python literals: integers, strings, tuples, lists,
\* dicts and nested models.  Absent marks a key a mapping does not hold.
Absent == "<absent>"
IntVals == {"0", "1", "7", "30", "123"}
StrVals == {"'a'", "'b'", "'7'", "'default'"}
TupleVals == {"(640, 640)", "(320, 240)"}
ListVals == {"[640, 640]", "[320, 240]"}
ModelVals == {"InterpolationConfig(type='linear')", "InterpolationConfig(type='cubic')"}
DictVals == {"{'type': 'linear'}", "{'type': 'cubic'}"}
Vals == IntVals \cup StrVals \cup TupleVals \cup ListVals \cup ModelVals \cup DictVals

\* a mapping from keys to values: a parsed YAML document, a model_dump, the
\* keyword arguments of a schema class
Dict(value, number, bad) ==
  [k \in Keys |-> CASE k = "value"  -> value
                   [] k = "number" -> number
                   [] k = "bad"    -> bad
                   [] OTHER        -> Absent]
EmptyDict == Dict(Absent, Absent, Absent)
\* the keyword arguments of CameraConfig and of FrameProcessorConfig
CameraDict(id, size, fps) ==
  [EmptyDict EXCEPT !["camera_id"] = id, !["target_size"] = size, !["fps_limit"] = fps]
ProcessorDict(interpolation) == [EmptyDict EXCEPT !["interpolation"] = interpolation]

\* the schema classes of the tests and of schema.py:
\*   TestConfig: value: str = "default", number: int = 123, extra = "forbid"
\*   Pathless:   value: str (required), extra fields ignored
\*   CameraConfig: camera_id: int = 0, target_size: tuple[int, int] = (640, 640),
\*                 fps_limit: int = 30, extra = "forbid"
\*   FrameProcessorConfig: interpolation: InterpolationConfig, extra = "forbid"
\*     (its normalization and model_input fields are nested models of the same
\*     kind and are left out)
FieldsOf(cls) ==
  CASE cls = "TestConfig"           -> {"value", "number"}
    [] cls = "CameraConfig"         -> {"camera_id", "target_size", "fps_limit"}
    [] cls = "FrameProcessorConfig" -> {"interpolation"}
    [] OTHER                        -> {"value"}
FieldType(cls, k) ==
  CASE k \in {"number", "camera_id", "fps_limit"} -> "int"
    [] k = "target_size"                          -> "tuple"
    [] k = "interpolation"                        -> "InterpolationConfig"
    [] OTHER                                      -> "str"
DefaultOf(cls, k) ==
  CASE cls = "TestConfig" /\ k = "value"                     -> "'default'"
    [] cls = "TestConfig" /\ k = "number"                    -> "123"
    [] cls = "CameraConfig" /\ k = "camera_id"               -> "0"
    [] cls = "CameraConfig" /\ k = "target_size"             -> "(640, 640)"
    [] cls = "CameraConfig" /\ k = "fps_limit"               -> "30"
    [] cls = "FrameProcessorConfig" /\ k = "interpolation"   ->
         "InterpolationConfig(type='linear')"
    [] OTHER                                                 -> Absent
ForbidsExtra(cls) == cls \in {"TestConfig", "CameraConfig", "FrameProcessorConfig"}

\* a list as the tuple of its items, a dict as the nested model of its items
TupleOf(v) == IF v = "[640, 640]" THEN "(640, 640)" ELSE "(320, 240)"
ModelOf(v) ==
  IF v = "{'type': 'linear'}" THEN "InterpolationConfig(type='linear')"
  ELSE "InterpolationConfig(type='cubic')"
\* a nested model as the dict of its fields
DictOf(v) ==
  IF v = "InterpolationConfig(type='linear')" THEN "{'type': 'linear'}"
  ELSE "{'type': 'cubic'}"

\* pydantic's conversion of an input to a field's type: an int field takes an
\* integer, and a string of digits as the integer it spells; a str field takes
\* only a string; a tuple field takes a tuple or a list of the right length; a
\* nested-model field takes an instance of the model or a dict of its fields.
\* Absent when the input is not valid for the type.
Coerce(type, v) ==
  CASE type = "int" ->
         (IF v \in IntVals THEN v ELSE IF v = "'7'" THEN "7" ELSE Absent)
    [] type = "tuple" ->
         (IF v \in TupleVals THEN v ELSE IF v \in ListVals THEN TupleOf(v) ELSE Absent)
    [] type = "InterpolationConfig" ->
         (IF v \in ModelVals THEN v ELSE IF v \in DictVals THEN ModelOf(v) ELSE Absent)
    [] OTHER ->
         (IF v \in StrVals THEN v ELSE Absent)

\* schema_class(**d): whether construction validates, and the fields it gives
Validates(cls, d) ==
  /\ ForbidsExtra(cls) => \A k \in Keys \ FieldsOf(cls) : d[k] = Absent
  /\ \A k \in FieldsOf(cls) :
       IF d[k] = Absent
       THEN DefaultOf(cls, k) # Absent
       ELSE Coerce(FieldType(cls, k), d[k]) # Absent

Construct(cls, d) ==
  [k \in Keys |->
     IF k \notin FieldsOf(cls) THEN Absent
     ELSE IF d[k] = Absent THEN DefaultOf(cls, k)
     ELSE Coerce(FieldType(cls, k), d[k])]

\* the fields of an instance built from nothing but defaults
DefaultsOf(cls) ==
  [k \in Keys |-> IF k \in FieldsOf(cls) THEN DefaultOf(cls, k) ELSE Absent]

\* An instance of a schema class: its identity, its class, its field values.
NoInst == [id |-> 0, cls |-> None, fields |-> EmptyDict]
Instance(id, cls, fields) == [id |-> id, cls |-> cls, fields |-> fields]

\* instance.model_dump(): the field values as a mapping, a nested model as
\* the dict of its own dump; a tuple stays a tuple
model_dump(inst) ==
  [k \in Keys |-> IF inst.fields[k] \in ModelVals THEN DictOf(inst.fields[k])
                  ELSE inst.fields[k]]

\* What a file holds: nothing at all (no such file), no document ("empty"),
\* text that is not YAML ("malformed"), a document that is not a mapping
\* ("nonmapping": a list or a scalar), or a mapping, whose doc gives the YAML
\* text of the node under each key.
Content(kind, doc) == [kind |-> kind, doc |-> doc]
Missing == Content("missing", EmptyDict)
Empty == Content("empty", EmptyDict)
Malformed == Content("malformed", EmptyDict)
NonMapping == Content("nonmapping", EmptyDict)
Mapping(d) == Content("mapping", d)

\* The YAML text yaml.dump writes for a value: an integer as its digits, a
\* string plain, or quoted when the plain text would read as something else, a
\* list as a sequence, a dict as a mapping, and a tuple as a sequence under the
\* tag !!python/tuple.
Represent(v) ==
  CASE v = "'a'"               -> "a"
    [] v = "'b'"               -> "b"
    [] v = "'default'"         -> "default"
    [] v = "(640, 640)"        -> "!!python/tuple [640, 640]"
    [] v = "(320, 240)"        -> "!!python/tuple [320, 240]"
    [] v = "{'type': 'linear'}" -> "{type: linear}"
    [] v = "{'type': 'cubic'}"  -> "{type: cubic}"
    [] OTHER                   -> v

\* the text yaml.safe_load cannot construct a value from: a python-specific tag
Unconstructible(t) ==
  t \in {"!!python/tuple [640, 640]", "!!python/tuple [320, 240]"}

\* the value yaml.safe_load constructs from a node's text
ConstructNode(t) ==
  CASE t = "a"              -> "'a'"
    [] t = "b"              -> "'b'"
    [] t = "default"        -> "'default'"
    [] t = "{type: linear}" -> "{'type': 'linear'}"
    [] t = "{type: cubic}"  -> "{'type': 'cubic'}"
    [] OTHER                -> t

\* yaml.dump(config_dict, f): the text written for a mapping
yaml_dump(d) == Mapping([k \in Keys |-> Represent(d[k])])

\* yaml.safe_load(f): what parsing a file's text gives.  A mapping gives the
\* dict of the values constructed from its nodes; a node that cannot be
\* constructed raises ConstructorError, a yaml.YAMLError like that of
\* malformed text.
safe_load(content) ==
  IF content.kind # "mapping" THEN content
  ELSE IF \E k \in Keys : Unconstructible(content.doc[k]) THEN Malformed
  ELSE Mapping([k \in Keys |-> ConstructNode(content.doc[k])])

\* the documents the environment writes into configuration files
FileDocs ==
  { Dict("'a'", "'7'", Absent),    \* number given as the string "7"
    Dict("'a'", "'a'", Absent),    \* number of the wrong type
    Dict("'a'", Absent, "1"),      \* a field TestConfig does not have
    Dict(Absent, "1", Absent) }    \* no value: Pathless requires it
FileContents == {Missing, Empty, Malformed, NonMapping} \cup {Mapping(d) : d \in FileDocs}

\* the overrides create_custom_config is called with
Overrides ==
  { Dict("'b'", "7", Absent),
    Dict(Absent, "'7'", Absent),   \* a string of digits for an int field
    Dict(Absent, "'a'", Absent),   \* a value of the wrong type
    Dict(Absent, Absent, "1") }    \* a key that is no field

\* Paths.  Files are the configuration files loaded from; the default paths of
\* _initialize_paths are named after what they hold.
Files == {"test_config.yaml", "custom.yaml"}
DefaultPaths ==
  [project_root     |-> "root",
   configs_dir      |-> "root/configs",
   models_dir       |-> "root/models",
   data_dir         |-> "root/data",
   output_dir       |-> "root/output",
   logs_dir         |-> "root/logs",
   camera_config    |-> "root/configs/components/camera.yaml",
   processor_config |-> "root/configs/components/processor.yaml"]
ModelPaths ==
  [mediapipe_config |-> "root/configs/components/models/mediapipe.yaml",
   yolov9_config    |-> "root/configs/components/models/yolov9.yaml"]

\* the path names callers register and look up
PathNames == {"test_config", "pathless_config"}
PathKeys == PathNames \cup DOMAIN DefaultPaths \cup DOMAIN ModelPaths
NoPaths == [k \in PathKeys |-> None]

\* f"{config_name}_config"
PathKey(name) ==
  CASE name = "test"      -> "test_config"
    [] name = "camera"    -> "camera_config"
    [] name = "processor" -> "processor_config"
    [] OTHER              -> "pathless_config"

\* Where save_custom_config is asked to write: beside the configuration files,
\* under a directory that does not exist yet, under a path that is a regular
\* file, under a directory that cannot be written.
SavePaths == {"custom.yaml", "deep/nest/cfg.yaml", "notadir/cfg.yaml", "readonly/cfg.yaml"}
Parent(p) ==
  CASE p = "deep/nest/cfg.yaml" -> "deep/nest"
    [] p = "notadir/cfg.yaml"   -> "notadir"
    [] p = "readonly/cfg.yaml"  -> "readonly"
    [] OTHER                    -> "."
\* "notadir" is a regular file; "readonly" is a directory nothing can be created in
IsRegularFile(p) == p = "notadir"
IsWritableDir(p) == p # "readonly"
\* the paths that can come to hold a file
AllFiles == Files \cup {"deep/nest/cfg.yaml"}
\* what yaml.dump can be made to raise: nothing, the ConfigSaveError the tests
\* inject, or a yaml.YAMLError of its own
DumpFaults == {None, "ConfigSaveError", "RepresenterError"}


(***************************************************************************)
(* ConfigRegistry: the operations                                          *)
(***************************************************************************)

\* the record of a call: op(name, path) returned ret (an instance, NoInst for
\* None) or val (True, False, a path; None otherwise), or raised exc; log is what
\* it logged at error or warning level, read the file it opened for reading,
\* kw the keyword arguments it was given, cfg the configuration object it was
\* given (NoInst when it takes none)
CallKw(op, name, path, kw, ret, val, exc, log, read) ==
  [op |-> op, name |-> name, path |-> path, kw |-> kw, ret |-> ret, val |-> val,
   exc |-> exc, log |-> log, read |-> read, cfg |-> NoInst]
Call(op, name, path, ret, val, exc, log, read) ==
  CallKw(op, name, path, EmptyDict, ret, val, exc, log, read)
\* the record of a save_custom_config(config, save_path) call
SaveCall(config, save_path, val, exc, log) ==
  [Call("save_custom_config", None, save_path, NoInst, val, exc, log, None)
     EXCEPT !.cfg = config]

\* _initialize_paths, lines 36-58: the default paths, with the model paths
\* when their directory exists
InitialPaths(models_config_dir_exists) ==
  [k \in PathKeys |->
     IF k \in DOMAIN DefaultPaths THEN DefaultPaths[k]
     ELSE IF k \in DOMAIN ModelPaths /\ models_config_dir_exists THEN ModelPaths[k]
     ELSE None]

\* what the tests' set-up writes into test_config.yaml
TestFile == Mapping(Dict("'a'", "1", Absent))

\* the registry objects super().__new__(cls) returns: the first, the second
Registry(k) == IF k = 1 THEN "ConfigRegistry#1" ELSE "ConfigRegistry#2"

\* A process starts with the class attributes of lines 18-21: no instance, no
\* schema, no cached instance, no path.
Fresh ==
  /\ _instance = None
  /\ _config_schemas = [n \in Names |-> None]
  /\ _paths = NoPaths

\* The registry as the tests' setUp leaves it: constructed, TestConfig
\* registered under "test" and test_config.yaml under "test_config".
SetUp ==
  /\ _instance = Registry(1)
  /\ _config_schemas = [n \in Names |-> IF n = "test" THEN "TestConfig" ELSE None]
  /\ _paths = [InitialPaths(FALSE) EXCEPT !["test_config"] = "test_config.yaml"]

\* ... and after the load_config("test") most tests begin with
Loaded ==
  /\ SetUp
  /\ _config_instances =
       [n \in Names |-> IF n = "test"
                        THEN Instance(1, "TestConfig",
                                      Construct("TestConfig", safe_load(TestFile).doc))
                        ELSE NoInst]
  /\ nextId = 2
  /\ loads = _config_instances
  /\ last = Call("load_config", "test", None, _config_instances["test"], None,
                 None, None, "test_config.yaml")

NotLoaded ==
  /\ _config_instances = [n \in Names |-> NoInst]
  /\ nextId = 1
  /\ loads = _config_instances
  /\ last = Call("init", None, None, NoInst, None, None, None, None)

\* The explorations start from a fresh process, from the tests' set-up, and
\* from the set-up followed by a load: each is what the calls named leave.
RegInit ==
  /\ \/ Fresh /\ NotLoaded
     \/ SetUp /\ NotLoaded
     \/ Loaded
  /\ fs = [f \in AllFiles |-> IF f = "test_config.yaml" THEN TestFile ELSE Missing]
  /\ dirs = {}
  /\ fileChanges = 0
  /\ calls = 0

\* a fresh process, for the explorations of the camera
RegIdle == RegInit /\ Fresh

\* a __new__ that constructs a registry object on every call
NewAlwaysConstructs ==
  /\ _instance' = IF _instance = Registry(1) THEN Registry(2) ELSE Registry(1)
  /\ \E models_config_dir_exists \in BOOLEAN :
       _paths' = InitialPaths(models_config_dir_exists)
  /\ last' = Call("ConfigRegistry", None, None, NoInst, _instance', None, None, None)
  /\ UNCHANGED <<camVars, loads, _config_schemas, _config_instances, fs, dirs, nextId, fileChanges>>

\* ConfigRegistry(): __new__ and, on the first call, _initialize_paths, which
\* assigns cls._paths afresh; the model paths are added when their directory
\* exists.  The call returns cls._instance.
New ==
  /\ IF _instance # None
     THEN UNCHANGED <<camVars, loads, _instance, _paths>>
     ELSE /\ _instance' = Registry(1)
          /\ \E models_config_dir_exists \in BOOLEAN :
               _paths' = InitialPaths(models_config_dir_exists)
  /\ last' = Call("ConfigRegistry", None, None, NoInst, _instance', None, None, None)
  /\ UNCHANGED <<camVars, loads, _config_schemas, _config_instances, fs, dirs, nextId, fileChanges>>

\* get_path(path_name)
get_path(path_name) ==
  /\ last' = IF _paths[path_name] = None
             THEN Call("get_path", path_name, None, NoInst, None, None,
                       "path_not_registered", None)
             ELSE Call("get_path", path_name, None, NoInst, _paths[path_name],
                       None, None, None)
  /\ UNCHANGED <<camVars, loads, _instance, _config_schemas, _config_instances, _paths, fs, dirs,
                 nextId, fileChanges>>

\* register_path(path_name, path)
register_path(path_name, path) ==
  /\ _paths' = [_paths EXCEPT ![path_name] = path]
  /\ last' = Call("register_path", path_name, path, NoInst, "True", None, None, None)
  /\ UNCHANGED <<camVars, loads, _instance, _config_schemas, _config_instances, fs, dirs, nextId,
                 fileChanges>>

\* register_config_schema(config_name, schema_class)
register_config_schema(config_name, schema_class) ==
  /\ _config_schemas' = [_config_schemas EXCEPT ![config_name] = schema_class]
  /\ last' = Call("register_config_schema", config_name, None, NoInst, "True",
                  None, None, None)
  /\ UNCHANGED <<camVars, loads, _instance, _config_instances, _paths, fs, dirs, nextId, fileChanges>>

\* What load_config(config_name, custom_path) does, as the record of its result:
\* ret is the instance it constructed, cached and returned (NoInst when it
\* returned None or raised), exc the exception that left it.
Outcome(ret, exc, log, read) == [ret |-> ret, exc |-> exc, log |-> log, read |-> read]

\* a load that takes an empty file for an empty mapping
LoadEmptyAsMapping(config_name, custom_path, id) ==
  IF _config_schemas[config_name] = None
  THEN Outcome(NoInst, None, "schema_not_registered", None)
  ELSE IF custom_path = None /\ _paths[PathKey(config_name)] = None
  THEN Outcome(NoInst, None, "no_default_path", None)
  ELSE
    LET config_path  == IF custom_path # None THEN custom_path
                        ELSE _paths[PathKey(config_name)]
        file         == fs[config_path]
        content      == safe_load(file)
        schema_class == _config_schemas[config_name]
    IN CASE file.kind = "missing" ->
              Outcome(NoInst, None, "file_not_found", None)
         [] content.kind = "malformed" ->
              Outcome(NoInst, None, "yaml_error", config_path)
         [] content.kind = "nonmapping" ->
              Outcome(NoInst, "TypeError", None, config_path)
         [] OTHER ->
              IF Validates(schema_class, content.doc)
              THEN Outcome(Instance(id, schema_class,
                                    Construct(schema_class, content.doc)),
                           None, None, config_path)
              ELSE Outcome(NoInst, "ValidationError", None, config_path)

\* a load that reads the registered default path whenever there is one
LoadDefaultFirst(config_name, custom_path, id) ==
  IF _config_schemas[config_name] = None
  THEN Outcome(NoInst, None, "schema_not_registered", None)
  ELSE IF custom_path = None /\ _paths[PathKey(config_name)] = None
  THEN Outcome(NoInst, None, "no_default_path", None)
  ELSE
    LET config_path  == IF _paths[PathKey(config_name)] # None
                        THEN _paths[PathKey(config_name)]
                        ELSE custom_path
        file         == fs[config_path]
        content      == safe_load(file)
        schema_class == _config_schemas[config_name]
    IN CASE file.kind = "missing" ->
              Outcome(NoInst, None, "file_not_found", None)
         [] content.kind = "malformed" ->
              Outcome(NoInst, None, "yaml_error", config_path)
         [] content.kind = "empty" ->
              Outcome(NoInst, None, "empty_file", config_path)
         [] content.kind = "nonmapping" ->
              Outcome(NoInst, "TypeError", None, config_path)
         [] OTHER ->
              IF Validates(schema_class, content.doc)
              THEN Outcome(Instance(id, schema_class,
                                    Construct(schema_class, content.doc)),
                           None, None, config_path)
              ELSE Outcome(NoInst, "ValidationError", None, config_path)

Load(config_name, custom_path, id) ==
  IF _config_schemas[config_name] = None
  THEN Outcome(NoInst, None, "schema_not_registered", None)
  ELSE IF custom_path = None /\ _paths[PathKey(config_name)] = None
  THEN Outcome(NoInst, None, "no_default_path", None)
  ELSE
    LET config_path  == IF custom_path # None THEN custom_path
                        ELSE _paths[PathKey(config_name)]
        file         == fs[config_path]
        content      == safe_load(file)
        schema_class == _config_schemas[config_name]
    IN CASE file.kind = "missing" ->
              Outcome(NoInst, None, "file_not_found", None)
         [] content.kind = "malformed" ->
              Outcome(NoInst, None, "yaml_error", config_path)
         [] content.kind = "empty" ->
              Outcome(NoInst, None, "empty_file", config_path)
         [] content.kind = "nonmapping" ->
              Outcome(NoInst, "TypeError", None, config_path)
         [] OTHER ->
              IF Validates(schema_class, content.doc)
              THEN Outcome(Instance(id, schema_class,
                                    Construct(schema_class, content.doc)),
                           None, None, config_path)
              ELSE Outcome(NoInst, "ValidationError", None, config_path)

\* a cache that drops the entry of a name whose load gave no instance
CachedOrEvicted(config_name, out) ==
  [_config_instances EXCEPT ![config_name] = out.ret]

\* the cache after a load: a constructed instance is stored under the name
Cached(config_name, out) ==
  IF out.ret # NoInst
  THEN [_config_instances EXCEPT ![config_name] = out.ret]
  ELSE _config_instances

\* identities used up by a result
Used(inst) == IF inst # NoInst THEN 1 ELSE 0

\* load_config(config_name, custom_path)
load_config(config_name, custom_path) ==
  LET out == Load(config_name, custom_path, nextId)
  IN /\ _config_instances' = Cached(config_name, out)
     /\ nextId' = nextId + Used(out.ret)
     /\ last' = Call("load_config", config_name, custom_path, out.ret, None,
                     out.exc, out.log, out.read)
     /\ loads' = [loads EXCEPT ![config_name] = out.ret]
     /\ UNCHANGED <<camVars, _instance, _config_schemas, _paths, fs, dirs, fileChanges>>

\* a get that only looks in the cache
GetWithoutLoad(config_name, id) ==
  Outcome(_config_instances[config_name], None, None, None)

\* a get that loads whether or not an instance is cached
GetAlwaysLoads(config_name, id) == Load(config_name, None, id)

\* What get_config(config_name) does: the cached instance, or a load
Get(config_name, id) ==
  IF _config_instances[config_name] = NoInst
  THEN Load(config_name, None, id)
  ELSE Outcome(_config_instances[config_name], None, None, None)

\* get_config(config_name)
get_config(config_name) ==
  LET out    == Get(config_name, nextId)
      loaded == IF _config_instances[config_name] = NoInst THEN out.ret ELSE NoInst
  IN /\ _config_instances' = Cached(config_name, out)
     /\ nextId' = nextId + Used(loaded)
     /\ last' = Call("get_config", config_name, None, out.ret, None,
                     out.exc, out.log, out.read)
     /\ UNCHANGED <<camVars, loads, _instance, _config_schemas, _paths, fs, dirs, fileChanges>>

\* lines 187-195: the base's dump with the overrides whose key it holds applied
Merge(config_dict, overrides) ==
  [k \in Keys |->
     IF overrides[k] # Absent /\ config_dict[k] # Absent
     THEN overrides[k] ELSE config_dict[k]]

\* lines 190-200: the override keys the dump does not hold
InvalidKeys(config_dict, overrides) ==
  {k \in Keys : overrides[k] # Absent /\ config_dict[k] = Absent}

\* a create_custom_config that, without a base, builds the schema's defaults
CreateFromDefaults(config_name, overrides) ==
  LET base_out     == Get(config_name, nextId)
      schema_class == _config_schemas[config_name]
      defaults     == base_out.ret = NoInst /\ base_out.exc = None
                      /\ schema_class # None
  IN /\ UNCHANGED <<camVars, loads, _instance, _config_schemas, _config_instances,
                    _paths, fs, dirs, fileChanges>>
     /\ nextId' = nextId + 1
     /\ last' = CallKw("create_custom_config", config_name, None, overrides,
                      IF defaults
                      THEN Instance(nextId, schema_class, DefaultsOf(schema_class))
                      ELSE NoInst,
                      None, None, None, base_out.read)

\* a create_custom_config that stores the custom instance under the name
CreateCachesCustom(config_name, overrides) ==
  LET base_out     == Get(config_name, nextId)
      loaded       == IF _config_instances[config_name] = NoInst
                      THEN base_out.ret ELSE NoInst
      base_config  == base_out.ret
      config_dict  == Merge(model_dump(base_config), overrides)
      invalid_keys == InvalidKeys(model_dump(base_config), overrides)
      schema_class == _config_schemas[config_name]
      id           == nextId + Used(loaded)
      custom       == Instance(id, schema_class, Construct(schema_class, config_dict))
  IN /\ UNCHANGED <<camVars, loads, _instance, _config_schemas, _paths, fs, dirs, fileChanges>>
     /\ IF base_out.exc # None
        THEN /\ nextId' = nextId
             /\ _config_instances' = Cached(config_name, base_out)
             /\ last' = CallKw("create_custom_config", config_name, None, overrides, NoInst,
                             None, base_out.exc, base_out.log, base_out.read)
        ELSE IF base_config = NoInst
        THEN /\ nextId' = nextId
             /\ _config_instances' = Cached(config_name, base_out)
             /\ last' = CallKw("create_custom_config", config_name, None, overrides, NoInst,
                             None, None, "no_base_config", base_out.read)
        ELSE IF Validates(schema_class, config_dict)
        THEN /\ nextId' = id + 1
             /\ _config_instances' = [_config_instances EXCEPT ![config_name] = custom]
             /\ last' = CallKw("create_custom_config", config_name, None, overrides,
                             custom, None, None,
                             IF invalid_keys # {} THEN "ignored_keys" ELSE None,
                             base_out.read)
        ELSE /\ nextId' = id
             /\ _config_instances' = Cached(config_name, base_out)
             /\ last' = CallKw("create_custom_config", config_name, None, overrides, NoInst,
                             None, "ValidationError",
                             IF invalid_keys # {} THEN "ignored_keys" ELSE None,
                             base_out.read)

\* create_custom_config(config_name, **overrides)
create_custom_config(config_name, overrides) ==
  LET base_out     == Get(config_name, nextId)
      loaded       == IF _config_instances[config_name] = NoInst
                      THEN base_out.ret ELSE NoInst
      base_config  == base_out.ret
      config_dict  == Merge(model_dump(base_config), overrides)
      invalid_keys == InvalidKeys(model_dump(base_config), overrides)
      schema_class == _config_schemas[config_name]
      id           == nextId + Used(loaded)
  IN /\ _config_instances' = Cached(config_name, base_out)
     /\ UNCHANGED <<camVars, loads, _instance, _config_schemas, _paths, fs, dirs, fileChanges>>
     /\ IF base_out.exc # None
        THEN /\ nextId' = nextId
             /\ last' = CallKw("create_custom_config", config_name, None, overrides, NoInst,
                             None, base_out.exc, base_out.log, base_out.read)
        ELSE IF base_config = NoInst
        THEN /\ nextId' = nextId
             /\ last' = CallKw("create_custom_config", config_name, None, overrides, NoInst,
                             None, None, "no_base_config", base_out.read)
        ELSE IF Validates(schema_class, config_dict)
        THEN /\ nextId' = id + 1
             /\ last' = CallKw("create_custom_config", config_name, None, overrides,
                             Instance(id, schema_class,
                                      Construct(schema_class, config_dict)),
                             None, None,
                             IF invalid_keys # {} THEN "ignored_keys" ELSE None,
                             base_out.read)
        ELSE /\ nextId' = id
             /\ last' = CallKw("create_custom_config", config_name, None, overrides, NoInst,
                             None, "ValidationError",
                             IF invalid_keys # {} THEN "ignored_keys" ELSE None,
                             base_out.read)

\* save_custom_config(config, save_path), with what yaml.dump is made to raise
\* when the call gets as far as the dump
save_custom_config(config, save_path, fault) ==
  LET parent == Parent(save_path)
  IN /\ fault # None => ~IsRegularFile(parent) /\ IsWritableDir(parent)
     /\ UNCHANGED <<camVars, loads, _instance, _config_schemas, _config_instances, _paths, nextId,
                    fileChanges>>
     /\ IF IsRegularFile(parent)
        THEN \* line 227: mkdir raises FileExistsError
             /\ last' = SaveCall(config, save_path, None, "FileExistsError", None)
             /\ UNCHANGED <<camVars, loads, fs, dirs>>
        ELSE IF ~IsWritableDir(parent)
        THEN \* line 233: open raises PermissionError
             /\ last' = SaveCall(config, save_path, None, "PermissionError", None)
             /\ UNCHANGED <<camVars, loads, fs, dirs>>
        ELSE /\ dirs' = IF parent = "." THEN dirs ELSE dirs \cup {parent}
             /\ IF fault = None
                THEN /\ fs' = [fs EXCEPT ![save_path] = yaml_dump(model_dump(config))]
                     /\ last' = SaveCall(config, save_path, "True", None, None)
                ELSE \* the file was opened for writing and holds nothing
                     /\ fs' = [fs EXCEPT ![save_path] = Empty]
                     /\ last' = IF fault = "ConfigSaveError"
                                THEN SaveCall(config, save_path, "False", None, "save_failed")
                                ELSE SaveCall(config, save_path, None, fault, None)

\* the instances a caller holds: the cached ones and the one last returned
Held == {i \in {_config_instances[n] : n \in Names} \cup {last.ret} : i # NoInst}

\* the environment rewrites or removes a configuration file
FileChange(f, content) ==
  /\ fileChanges < MaxFileChanges
  /\ fs[f] # content
  /\ fileChanges' = fileChanges + 1
  /\ fs' = [fs EXCEPT ![f] = content]
  /\ last' = Call("file_change", None, f, NoInst, None, None, None, None)
  /\ UNCHANGED <<camVars, loads, _instance, _config_schemas, _config_instances, _paths, dirs, nextId,
                 calls>>

\* a call of one of the registry's operations
Called(op) == calls < MaxCalls /\ calls' = calls + 1 /\ op

RegNext ==
  \/ Called(New)
  \/ \E k \in PathNames : Called(get_path(k))
  \/ \E k \in PathNames, p \in Files : Called(register_path(k, p))
  \/ \E n \in TestNames, c \in Classes : Called(register_config_schema(n, c))
  \/ \E n \in TestNames, p \in Files \cup {None} : Called(load_config(n, p))
  \/ \E n \in TestNames : Called(get_config(n))
  \/ \E n \in TestNames, o \in Overrides : Called(create_custom_config(n, o))
  \/ \E c \in Held, p \in SavePaths, x \in DumpFaults : Called(save_custom_config(c, p, x))
  \/ \E f \in Files, c \in FileContents : FileChange(f, c)

\* a CameraIngestion built with the default max_read_retries and no throttling
CamIdle == CamInit /\ max_read_retries = MaxRetries /\ fps_limit = 0

Init == CamInit /\ RegInit

Next == CamNext \/ RegNext

Spec == Init /\ [][Next]_vars

\* construction and the calls made on the object it returns
CtorNext ==
  \/ \E config \in Configs, retries \in 0..MaxRetries, opens \in BOOLEAN :
       __init__(config, retries, opens)
  \/ camera_frames
  \/ \E g \in Gens : Close(g)
  \/ stop
  \/ exit
  \/ DeviceCloses

CtorSpecInit == CtorInit /\ RegIdle

CtorSpec == CtorSpecInit /\ [][CtorNext]_vars

\* A CameraIngestion constructed with what get_config returned, None or a
\* configuration object, and everything then done with it.
AbsentConfigNext ==
  \/ \E config \in {NoneConfig, [NoneConfig EXCEPT !.is_none = FALSE]},
        opens \in BOOLEAN : __init__(config, MaxRetries, opens)
  \/ CamNext

AbsentConfigSpecInit == CtorInit /\ RegIdle

AbsentConfigSpec == AbsentConfigSpecInit /\ [][AbsentConfigNext]_vars

\* the camera alone, beside an untouched registry
CamSpecInit == CamInit /\ RegIdle

CamSpec == CamSpecInit /\ [][CamNext]_vars

\* The configuration objects a caller constructs itself, as schema_class(**kw):
\* flat ones, the camera's with its pair-valued target_size (given as a tuple,
\* as a list, or left to its default), and the processor's with its nested model.
Constructed ==
  { [cls |-> "TestConfig",           kw |-> Dict("'a'", "7", Absent)],
    [cls |-> "TestConfig",           kw |-> Dict("'7'", Absent, Absent)],
    [cls |-> "Pathless",             kw |-> Dict("'b'", Absent, Absent)],
    [cls |-> "CameraConfig",         kw |-> EmptyDict],
    [cls |-> "CameraConfig",         kw |-> CameraDict("1", "[320, 240]", "0")],
    [cls |-> "FrameProcessorConfig", kw |-> EmptyDict],
    [cls |-> "FrameProcessorConfig", kw |-> ProcessorDict("{'type': 'cubic'}")] }

\* The registry as main.py and the tests' setUp leave it, every schema
\* registered under its name, and a configuration object just constructed.
RoundTripInit ==
  /\ _instance = Registry(1)
  /\ _config_schemas =
       [n \in Names |-> CASE n = "test"      -> "TestConfig"
                         [] n = "pathless"  -> "Pathless"
                         [] n = "camera"    -> "CameraConfig"
                         [] n = "processor" -> "FrameProcessorConfig"]
  /\ _paths = [InitialPaths(FALSE) EXCEPT !["test_config"] = "test_config.yaml"]
  /\ _config_instances = [n \in Names |-> NoInst]
  /\ loads = _config_instances
  /\ nextId = 2
  /\ \E c \in Constructed :
       /\ Validates(c.cls, c.kw)
       /\ last = CallKw("schema_class", None, None, c.kw,
                        Instance(1, c.cls, Construct(c.cls, c.kw)),
                        None, None, None, None)
  /\ fs = [f \in AllFiles |-> IF f = "test_config.yaml" THEN TestFile ELSE Missing]
  /\ dirs = {}
  /\ fileChanges = 0
  /\ calls = 0

\* saving a configuration object and loading files
RoundTripNext ==
  \/ \E c \in Held, p \in SavePaths, x \in DumpFaults : Called(save_custom_config(c, p, x))
  \/ \E n \in Names, p \in AllFiles : Called(load_config(n, p))

RoundTripSpecInit == CamIdle /\ RoundTripInit

RoundTripSpec == RoundTripSpecInit /\ [][RoundTripNext]_vars

\* the registry alone, beside an untouched camera
RegSpecInit == CamIdle /\ RegInit

RegSpec == RegSpecInit /\ [][RegNext]_vars

(***************************************************************************)
(* Properties of CameraIngestion                                           *)
(***************************************************************************)

Terminated(g) == gen[g].pc = "done"
Raised(g) == gen[g].pc \in {"finally", "done"} /\ gen[g].why = "error"

\* C1, as stated: every generator camera_frames returns calls release exactly
\* once when it terminates, however it terminates.
C1_EveryTerminationReleasesOnce ==
  \A g \in Gens : Terminated(g) => gen[g].releases = 1

\* C1, amended: a generator that has been pulled at least once calls release
\* exactly once, at its termination, on each exit path (the handle reporting
\* closed, FrameReadError, the consumer closing it at a yield); a generator
\* closed before its first pull terminates without calling release.
C1_StartedTerminationReleasesOnce ==
  \A g \in Gens :
    /\ Terminated(g) /\ gen[g].why \in {"closed", "error", "exit"}
         => gen[g].releases = 1
    /\ Terminated(g) /\ gen[g].why = "unstarted" => gen[g].releases = 0
    /\ ~Terminated(g) => gen[g].releases = 0

\* a generator closed by its consumer at a yield has terminated and released
C1_Witness ==
  \E g \in Gens :
    Terminated(g) /\ gen[g].why = "exit" /\ gen[g].yields = 1 /\ gen[g].releases = 1

\* C2: over the lifetime of a CameraIngestion release is called exactly once:
\* never a second time, and once as soon as a generator has terminated from
\* inside its loop or stop() or __exit__ has run.
C2_ReleasedExactlyOnce ==
  /\ relCount <= 1
  /\ (stopCalls + exitCalls > 0
       \/ \E g \in Gens : Terminated(g) /\ gen[g].why # "unstarted")
      => relCount = 1

\* C3: no isOpened, read or property query is performed on the handle after
\* release has been called on it.
C3_NoUseAfterRelease == ~usedAfterRelease

\* C4, as stated: FrameReadError is raised on the max_read_retries-th
\* consecutive failed read.
C4_RaisesOnMaxRetriesThFailure ==
  \A g \in Gens : Raised(g) => gen[g].fails = max_read_retries

\* C4, amended: FrameReadError is raised on the (max_read_retries + 1)-th
\* consecutive failed read, after exactly max_read_retries + 1 read attempts:
\* max_read_retries failed reads are retried, the next one is fatal.
C4_RaisesAfterMaxRetriesPlusOne ==
  \A g \in Gens :
    /\ Raised(g) => gen[g].fails = max_read_retries + 1
    /\ ~Raised(g) => gen[g].fails <= max_read_retries

\* a handle whose every read failed: the error came on the third read of a
\* generator built with max_read_retries = 2
C4_Witness ==
  \E g \in Gens :
    /\ Terminated(g) /\ gen[g].why = "error"
    /\ gen[g].yields = 0 /\ max_read_retries = 2 /\ gen[g].fails = 3

\* C5: the retry warning is logged once per failed read that is retried: when
\* a frame is yielded after k failed reads, k warnings were logged since the
\* generator was resumed; when FrameReadError is raised, max_read_retries were.
C5_OneWarningPerRetry ==
  \A g \in Gens :
    /\ gen[g].pc = "yield"
         => gen[g].warnings = gen[g].fails /\ gen[g].fails <= max_read_retries
    /\ Raised(g) => gen[g].warnings = max_read_retries

\* one failed read, then a frame: one warning, with max_read_retries = 2
C5_Witness ==
  \E g \in Gens :
    /\ gen[g].pc = "yield" /\ gen[g].yields = 1
    /\ gen[g].fails = 1 /\ gen[g].warnings = 1 /\ max_read_retries = 2

\* C12: a construction on a device that reports not-open raises CameraOpenError
\* carrying the camera_id asked for (the configuration's, 0 when it has none),
\* performs no read and no property query on the handle, and returns no
\* object: no method is ever called on one.
C12_OpenFailureRaises ==
  ctor.state = "failed"
  => /\ ctor.exc = "CameraOpenError"
     /\ ctor.exc_camera_id =
          (IF ctor.config_camera_id = -1 THEN 0 ELSE ctor.config_camera_id)
     /\ ctor.camera_id = ctor.exc_camera_id
     /\ ctor.gets = 0 /\ ctor.reads = 0
     /\ nGen = 0 /\ stopCalls = 0 /\ exitCalls = 0 /\ relCount = 0
     /\ ~usedAfterRelease

\* a construction asked for device 1, which did not open
C12_Witness ==
  /\ ctor.state = "failed" /\ ctor.config_camera_id = 1
  /\ ctor.exc = "CameraOpenError" /\ ctor.exc_camera_id = 1
  /\ ~capOpen

\* C13: with fps_limit = L > 0, an iteration that finds d = current_time -
\* last_frame_time below the interval 1/L sleeps once, for 1/L - d, before its
\* read; an iteration that finds d >= 1/L does not sleep.
C13_SleepsForTheRemainder ==
  fps_limit > 0 =>
    \A g \in Gens :
      /\ gen[g].pc = "sleep"
           => /\ gen[g].elapsed < min_frame_interval
              /\ gen[g].slept = min_frame_interval - gen[g].elapsed
      /\ gen[g].pc = "stamp"
           => /\ gen[g].elapsed >= min_frame_interval
              /\ gen[g].slept = 0
      /\ gen[g].pc \notin {"sleep", "stamp"} => gen[g].slept = 0

\* the iteration after a yielded frame began at once and slept the whole interval
C13_Witness ==
  \E g \in Gens :
    /\ fps_limit = 2 /\ gen[g].pc = "sleep" /\ gen[g].yields = 1
    /\ gen[g].elapsed = 0 /\ gen[g].slept = min_frame_interval
    /\ gen[g].slept > 0

\* C14: with fps_limit = 0 no iteration of camera_frames sleeps, whatever the
\* clock reads and whatever the reads return.
C14_NoSleepWithoutLimit ==
  fps_limit = 0 => \A g \in Gens : gen[g].slept = 0

\* C20: the interval is measured from the last yielded frame: in a retry run,
\* whenever the clock reads at least the interval after the last yielded frame,
\* the test of line 79 asks for no sleep.
C20_IntervalFromLastYield ==
  fps_limit > 0 =>
    \A g \in Gens :
      (gen[g].pc = "throttle" /\ gen[g].read_retries > 0 /\ gen[g].yield_time >= 0)
      => \A current_time \in 0..MaxTime :
           current_time - gen[g].yield_time >= min_frame_interval
           => ~(current_time - gen[g].last_frame_time < min_frame_interval)

\* C21: a successful read resets read_retries to zero before the frame is
\* yielded, so inside the loop read_retries is the number of failed reads since
\* the last successful one, and FrameReadError is raised only when
\* max_read_retries + 1 reads in a row have failed: failed reads on either side
\* of a successful read are not added up.
C21_SuccessResetsCounter ==
  \A g \in Gens :
    /\ gen[g].pc = "yield" => gen[g].read_retries = 0
    /\ gen[g].pc \in {"loop", "throttle", "sleep", "stamp", "read"}
         => gen[g].read_retries = gen[g].fails
    /\ Raised(g) => /\ gen[g].read_retries = max_read_retries
                    /\ gen[g].fails = gen[g].read_retries + 1

\* a second frame was yielded after as many failed reads as are retried, and
\* the counter stands at zero again: a failed read after the next pull is the
\* first of its run
C21_Witness ==
  \E g \in Gens :
    /\ gen[g].pc = "yield" /\ gen[g].yields = 2
    /\ max_read_retries = 2 /\ gen[g].fails = 2 /\ gen[g].read_retries = 0

\* C22: a loop test that finds the handle not open, at the first pull, after a
\* yielded frame or in the middle of a retry run, ends the sequence normally:
\* the generator leaves the loop for the finally block with no FrameReadError,
\* attempts no further read, and terminates having called release.
C22_ClosedEndsNormally ==
  [][\A g \in Gens :
       /\ (gen[g].pc = "loop" /\ gen'[g].pc # "loop" /\ ~capOpen)
            => /\ gen'[g].pc = "finally" /\ gen'[g].why = "closed"
               /\ gen'[g].fails = gen[g].fails /\ gen'[g].yields = gen[g].yields
       /\ (gen[g].pc = "finally" /\ gen[g].why = "closed" /\ gen'[g] # gen[g])
            => /\ gen'[g].pc = "done" /\ gen'[g].why = "closed"
               /\ gen'[g].releases = 1 /\ relCount' = relCount + 1
               /\ gen'[g].fails = gen[g].fails /\ gen'[g].yields = gen[g].yields
       /\ gen[g].pc = "done" => gen'[g] = gen[g]]_vars

\* the handle stopped reporting open in the middle of a retry run that followed
\* a yielded frame: the generator ended without FrameReadError and released
C22_Witness ==
  \E g \in Gens :
    /\ Terminated(g) /\ gen[g].why = "closed"
    /\ gen[g].yields = 1 /\ gen[g].fails = 1 /\ gen[g].releases = 1
    /\ max_read_retries = 2

\* C23: a generator the consumer has stopped pulling from, suspended at its
\* yield or never started, has not called release; release is called only by
\* stop(), by __exit__ and by a generator that terminates from inside its try
\* block, so the handle of an abandoned generator stays unreleased until one of
\* these runs.
C23_AbandonedGeneratorKeepsHandle ==
  /\ \A g \in Gens : gen[g].pc \in {"unstarted", "yield"} => gen[g].releases = 0
  /\ relCount = stopCalls + exitCalls
                + Cardinality({g \in Gens : gen[g].releases = 1})
  /\ \A g \in Gens : gen[g].releases = 1 => Terminated(g)

\* two frames were taken and the consumer pulls no more: nothing has released
\* the handle, which still reports open
C23_Witness ==
  \E g \in Gens :
    /\ gen[g].pc = "yield" /\ gen[g].yields = 2 /\ running = 0
    /\ relCount = 0 /\ capOpen /\ stopCalls = 0 /\ exitCalls = 0

\* the reads a generator has attempted since it was last resumed: the failed
\* ones, and the successful one when it is, or was closed while, at its yield
Attempts(g) ==
  gen[g].fails + (IF gen[g].pc = "yield" \/ gen[g].why = "exit" THEN 1 ELSE 0)

\* C28: in every state of a generator 0 <= read_retries <= max_read_retries,
\* and no more than max_read_retries + 1 reads are attempted between two
\* yields, before the first yield, or between a yield and the termination.
C28_RetriesWithinBound ==
  \A g \in Gens :
    /\ 0 <= gen[g].read_retries /\ gen[g].read_retries <= max_read_retries
    /\ Attempts(g) <= max_read_retries + 1

\* after one yielded frame every read failed: the third attempt, with
\* max_read_retries = 2, ended the generator, the counter standing at the bound
C28_Witness ==
  \E g \in Gens :
    /\ Raised(g) /\ gen[g].pc = "finally" /\ gen[g].yields = 1
    /\ max_read_retries = 2 /\ gen[g].read_retries = 2 /\ Attempts(g) = 3

\* C29: a CameraIngestion constructed with None for its configuration opens
\* device 0, and each of its generators that was pulled and has terminated
\* ended by the handle closing, by FrameReadError or by being closed at a
\* yield, and called release.
C29_AbsentConfigIsServed ==
  (ctor.state = "built" /\ ctor.config_none)
  => /\ ctor.camera_id = 0
     /\ \A g \in Gens :
          (Terminated(g) /\ gen[g].why # "unstarted")
          => /\ gen[g].why \in {"closed", "error", "exit"}
             /\ gen[g].releases = 1

\* C30: the frames a generator yields are the frames its successful reads
\* returned, in read order and each once: the frame at the consumer is always
\* the last one read, as many frames were yielded as were read, each yield
\* hands over the frame after the one yielded before, and a generator
\* suspended at its yield reads nothing until it is pulled or closed.
C30_YieldsExactlyTheFramesRead ==
  [][\A g \in Gens :
       /\ gen'[g].yields = gen'[g].reads /\ gen'[g].yielded = gen'[g].reads
       /\ gen'[g].yields # gen[g].yields
            => /\ gen[g].pc = "read" /\ gen'[g].pc = "yield"
               /\ gen'[g].yields = gen[g].yields + 1
               /\ gen'[g].yielded = gen[g].yielded + 1
       /\ (gen[g].pc = "yield" /\ gen'[g] # gen[g])
            => /\ gen'[g].pc \in {"loop", "finally"}
               /\ gen'[g].reads = gen[g].reads /\ gen'[g].fails <= gen[g].fails
               /\ running = 0 /\ running' = g]_vars

\* the second frame read is at the consumer, after a failed read that came
\* between the two and gave no frame
C30_Witness ==
  \E g \in Gens :
    /\ gen[g].pc = "yield" /\ gen[g].yields = 2
    /\ gen[g].reads = 2 /\ gen[g].yielded = 2
    /\ gen[g].fails = 1 /\ max_read_retries = 1

(***************************************************************************)
(* Properties of ConfigRegistry                                            *)
(***************************************************************************)

\* a step that is a call of op
CallOf(op) == calls' = calls + 1 /\ last'.op = op

\* the path load_config(name, path) resolves
LoadPath(name, path) == IF path # None THEN path ELSE _paths[PathKey(name)]

\* what a file holds does not make an instance of cls
Invalid(content, cls) ==
  \/ safe_load(content).kind \in {"malformed", "nonmapping"}
  \/ safe_load(content).kind = "mapping" /\ ~Validates(cls, safe_load(content).doc)

\* C6: load_config returns None and does not raise when what the file holds is
\* malformed or fails the schema's validation (an unknown field, a value of the
\* wrong type, a required field missing, a document that is no mapping).
C6_InvalidContentGivesNone ==
  (/\ last.op = "load_config"
   /\ last.read # None
   /\ Invalid(fs[last.read], _config_schemas[last.name]))
  => last.exc = None /\ last.ret = NoInst

\* the cases of C7: no schema registered for the name, no path to resolve, no
\* file at the resolved path, a file that parses to null
SoftFailure(name, path) ==
  \/ _config_schemas[name] = None
  \/ path = None /\ _paths[PathKey(name)] = None
  \/ fs[LoadPath(name, path)].kind \in {"missing", "empty"}

\* C7: a load_config call made when no schema is registered for the name
\* (whatever custom_path is given), when neither a custom_path nor a registered
\* path exists, when the resolved file does not exist, or when it is empty,
\* returns None, raises nothing, and leaves cache, schemas and paths as they were.
C7_SoftFailuresReturnNone ==
  [][(CallOf("load_config") /\ SoftFailure(last'.name, last'.path))
       => /\ last'.ret = NoInst
          /\ last'.exc = None
          /\ UNCHANGED <<_config_instances, _config_schemas, _paths>>]_vars

\* load_config of a name with no schema, given the path of a file that holds a
\* valid document, returned None
C7_Witness ==
  /\ last.op = "load_config"
  /\ last.path = "test_config.yaml"
  /\ fs["test_config.yaml"] = TestFile
  /\ _config_schemas[last.name] = None
  /\ last.ret = NoInst /\ last.exc = None /\ last.log = "schema_not_registered"

\* C8: once load_config(name) has succeeded, every get_config(name) returns the
\* very instance that load returned and reads no file, whatever was registered,
\* created, saved or changed on disk since, until load_config(name) is called
\* again.
C8_GetReturnsLoadedInstance ==
  (last.op = "get_config" /\ loads[last.name] # NoInst)
  => last.ret = loads[last.name] /\ last.read = None /\ last.exc = None

\* get_config("test") returned the loaded instance after the file it came from
\* was rewritten
C8_Witness ==
  /\ last.op = "get_config" /\ last.name = "test"
  /\ loads["test"] # NoInst /\ last.ret = loads["test"]
  /\ fileChanges = 1 /\ fs["test_config.yaml"] # TestFile

\* C9: create_custom_config of a name whose base instance was obtained returns
\* an instance: it neither raises nor returns None, whatever the override values.
C9_CustomNeverFails ==
  (last.op = "create_custom_config" /\ _config_instances[last.name] # NoInst)
  => last.exc = None /\ last.ret # NoInst

\* C10: save_custom_config returns True with the file written, or False; it
\* never raises.
C10_SaveNeverRaises ==
  last.op = "save_custom_config"
  => /\ last.exc = None
     /\ last.val \in {"True", "False"}
     /\ last.val = "True" => fs[last.path].kind = "mapping"

\* C15: a load_config given a custom_path reads the file at custom_path and no
\* other, whether or not a default path is registered for the name; the
\* instance it returns holds what that file holds and is the one cached under
\* the name, and a later get_config of the name returns it.
C15_CustomPathTakesPrecedence ==
  /\ (last.op = "load_config" /\ last.path # None)
       => /\ last.read \in {None, last.path}
          /\ last.ret # NoInst
               => /\ last.read = last.path
                  /\ safe_load(fs[last.path]).kind = "mapping"
                  /\ last.ret.fields =
                       Construct(last.ret.cls, safe_load(fs[last.path]).doc)
                  /\ _config_instances[last.name] = last.ret
  /\ (last.op = "get_config" /\ loads[last.name] # NoInst)
       => last.ret = loads[last.name]

\* "test" has its default path registered and test_config.yaml holds the
\* set-up's document; load_config("test", custom.yaml) returned what
\* custom.yaml holds
C15_Witness ==
  /\ last.op = "load_config" /\ last.name = "test" /\ last.path = "custom.yaml"
  /\ _paths["test_config"] = "test_config.yaml"
  /\ fs["test_config.yaml"] = TestFile
  /\ last.ret # NoInst /\ last.read = "custom.yaml"
  /\ last.ret.fields # Construct("TestConfig", safe_load(TestFile).doc)
  /\ _config_instances["test"] = last.ret

\* C16: get_config of a name with nothing cached does what load_config of the
\* name with no custom_path does: same result, same exception, same file read;
\* an instance it returns is cached, and when it returns none the cache is as
\* it was, so that the next get_config loads again.  get_config of a cached
\* name reads no file.
C16_GetLoadsWhenNotCached ==
  [][CallOf("get_config") =>
       IF _config_instances[last'.name] = NoInst
       THEN LET out == Load(last'.name, None, nextId)
            IN /\ last'.ret = out.ret /\ last'.exc = out.exc
               /\ last'.log = out.log /\ last'.read = out.read
               /\ out.ret # NoInst => _config_instances'[last'.name] = out.ret
               /\ out.ret = NoInst => UNCHANGED _config_instances
       ELSE /\ last'.ret = _config_instances[last'.name]
            /\ last'.read = None
            /\ UNCHANGED _config_instances]_vars

\* get_config("test"), never loaded before, read test_config.yaml and cached
\* the instance it returned
C16_Witness ==
  /\ last.op = "get_config" /\ last.name = "test"
  /\ loads["test"] = NoInst
  /\ last.ret # NoInst /\ last.read = "test_config.yaml"
  /\ _config_instances["test"] = last.ret

\* C17: create_custom_config of a name with nothing cached whose schema is not
\* registered, whose path cannot be resolved, or whose file is missing or
\* empty, returns None, raises nothing and caches nothing.
C17_NoBaseGivesNone ==
  [][(/\ CallOf("create_custom_config")
      /\ _config_instances[last'.name] = NoInst
      /\ SoftFailure(last'.name, None))
       => /\ last'.ret = NoInst
          /\ last'.exc = None
          /\ UNCHANGED _config_instances]_vars

\* create_custom_config("test") with test_config.yaml emptied returned None
C17_Witness ==
  /\ last.op = "create_custom_config" /\ last.name = "test"
  /\ _config_schemas["test"] = "TestConfig"
  /\ fs["test_config.yaml"] = Empty
  /\ last.ret = NoInst /\ last.exc = None /\ last.log = "no_base_config"
  /\ _config_instances["test"] = NoInst

\* C18: register_path(n, p) returns True and makes p the path of n; get_path(n)
\* returns the path of n, None when n has none, raises nothing and changes no
\* state; and the path of a name stays what it is until register_path is called
\* for that name again.
C18_RegisteredPathStays ==
  [][/\ CallOf("register_path")
          => /\ last'.val = "True" /\ last'.exc = None
             /\ _paths'[last'.name] = last'.path
     /\ CallOf("get_path")
          => /\ last'.val = _paths[last'.name] /\ last'.exc = None
             /\ UNCHANGED <<_instance, _config_schemas, _config_instances, _paths>>
     /\ \A n \in PathKeys :
          (_paths[n] # None /\ ~(CallOf("register_path") /\ last'.name = n))
          => _paths'[n] = _paths[n]]_vars

\* the entries _initialize_paths always registers, as C19 names them
DefaultEntries ==
  {"project_root", "configs_dir", "models_dir", "camera_config", "processor_config"}

\* C19: every ConfigRegistry() call returns the same object, cls._instance,
\* which never changes once set; and from the first call on the paths hold the
\* default entries.
C19_SingletonWithDefaultPaths ==
  [][/\ _instance # None => _instance' = _instance
     /\ CallOf("ConfigRegistry")
          => last'.val = _instance' /\ _instance' # None
     /\ _instance' # None => \A k \in DefaultEntries : _paths'[k] # None]_vars

\* a second ConfigRegistry() call, in a process that made the first from the
\* fresh state, returned the first object
C19_Witness ==
  /\ last.op = "ConfigRegistry" /\ calls = 2
  /\ _config_schemas = [n \in Names |-> None]
  /\ last.val = Registry(1) /\ _instance = Registry(1)
  /\ \A k \in DefaultEntries : _paths[k] = DefaultPaths[k]

\* C11: a load_config(name, p) that follows a successful save_custom_config(c, p)
\* of an instance c of the schema registered under name returns an instance
\* whose field values are those of c.
C11_SaveLoadRoundTrip ==
  [][(/\ CallOf("load_config")
      /\ last.op = "save_custom_config" /\ last.val = "True"
      /\ last'.path = last.path
      /\ _config_schemas[last'.name] = last.cfg.cls)
       => /\ last'.ret # NoInst
          /\ last'.ret.fields = last.cfg.fields]_vars

\* C24: a load_config(name, ...) call that gives no instance, by returning None
\* or by raising, leaves the cache as it was; a get_config(name) that follows
\* it on a name with a cached instance returns that instance and reads no file.
C24_FailedLoadKeepsCache ==
  [][/\ (CallOf("load_config") /\ last'.ret = NoInst)
          => _config_instances' = _config_instances
     /\ (/\ CallOf("get_config")
         /\ last.op = "load_config" /\ last.ret = NoInst
         /\ last'.name = last.name
         /\ _config_instances[last.name] # NoInst)
          => /\ last'.ret = _config_instances[last.name]
             /\ last'.read = None /\ last'.exc = None
             /\ _config_instances' = _config_instances]_vars

\* the file of "test" was rewritten with text that is not YAML and loaded
\* again: the load returned None and the instance loaded before is still cached
C24_Witness ==
  /\ last.op = "load_config" /\ last.name = "test"
  /\ last.ret = NoInst /\ last.log = "yaml_error"
  /\ _config_instances["test"] # NoInst /\ _config_instances["test"].id = 1
  /\ _config_instances["test"].fields = Construct("TestConfig", safe_load(TestFile).doc)

\* C25: every cached instance is an instance of the schema class registered
\* under its name.
C25_CachedInstanceOfRegisteredType ==
  \A n \in Names :
    _config_instances[n] # NoInst => _config_instances[n].cls = _config_schemas[n]

\* C26: no ConfigRegistry() call, the first of the process included, loses a
\* path registered before it: after the call every path name callers register
\* has the path it had.
C26_ConstructionKeepsPaths ==
  [][CallOf("ConfigRegistry")
       => \A n \in PathNames : _paths[n] # None => _paths'[n] = _paths[n]]_vars

\* C27: create_custom_config(name, **overrides) on a name with a cached
\* instance changes neither the cache, nor the schemas, nor the paths, nor any
\* file; the instance it returns is a new object, none of the cached ones; and
\* a get_config(name) that follows it returns the cached base, not the custom
\* instance.
C27_CustomLeavesRegistryAlone ==
  [][/\ (CallOf("create_custom_config") /\ _config_instances[last'.name] # NoInst)
          => /\ UNCHANGED <<_instance, _config_schemas, _config_instances, _paths,
                            fs, dirs>>
             /\ last'.ret # NoInst
                  => /\ \A n \in Names : _config_instances'[n] # last'.ret
                     /\ \A n \in Names : _config_instances'[n].id # last'.ret.id
     /\ (/\ CallOf("get_config")
         /\ last.op = "create_custom_config" /\ last'.name = last.name
         /\ _config_instances[last.name] # NoInst)
          => /\ last'.ret = _config_instances[last.name]
             /\ last.ret # NoInst => last'.ret.id # last.ret.id]_vars

\* a custom instance with value 'b' and number 7 was made from the cached base,
\* which still holds value 'a' and number 1 under its own identity
C27_Witness ==
  /\ last.op = "create_custom_config" /\ last.name = "test"
  /\ last.ret # NoInst /\ last.ret.id = 2
  /\ last.ret.fields["value"] = "'b'" /\ last.ret.fields["number"] = "7"
  /\ _config_instances["test"].id = 1
  /\ _config_instances["test"].fields["value"] = "'a'"
  /\ _config_instances["test"].fields["number"] = "1"

====
